---- MODULE Spec2Model ----
(***************************************************************************)
(* Model of plugins/duckdb-backup/scripts/backup_duckdb.py: a single-shot  *)
(* backup tool with a file-copy strategy (backup_with_cp), a native-export *)
(* strategy run through the duckdb command-line client                     *)
(* (backup_with_attach), timestamped naming (create_timestamped_backup)    *)
(* and a command-line entry point (main).                                  *)
(*                                                                         *)
(* The filesystem is a function from the paths that exist to what is       *)
(* there (a directory, or a regular file with its content).  A path is the *)
(* sequence of its components below the root; every path of the model is   *)
(* absolute and free of symbolic links, so Path.resolve() leaves it as it  *)
(* is.  File metadata (times, permissions) and device errors (a full disk) *)
(* are not modelled: an operation fails only for what is at its paths.     *)
(***************************************************************************)
EXTENDS Integers, Sequences, FiniteSets, TLC

VARIABLES
    fs,       \* the filesystem now
    fs0,      \* the filesystem when the process started (never changes)
    now,      \* the local time datetime.now() reads (never changes)
    pc,       \* "start", "parsed", "returned" (a function or main returned), "exited"
    call,     \* what was invoked, with its arguments
    ret,      \* the value a strategy called directly returned ("None": none yet)
    path,     \* the string create_timestamped_backup returned
    rc,       \* the value main returned (-1: none yet)
    raised,   \* TRUE when an exception left the invoked function
    status,   \* the process exit status (-1 while the process runs)
    stdout,   \* what was written to standard output, in order
    log,      \* the records the logger emitted (to standard error), in order
    started,  \* the backup strategies started, in order
    procs     \* the number of subprocesses spawned

vars == <<fs, fs0, now, pc, call, ret, path, rc, raised, status, stdout, log, started, procs>>

(***************************************************************************)
(* Bounds                                                                  *)
(***************************************************************************)
MaxContent == 2      \* file contents are 1..MaxContent
MaxReturnCode == 1   \* the duckdb client exits with 0..MaxReturnCode

Contents == 1..MaxContent

\* F applied to the value of v: v is evaluated once, whatever F does with it
Eval(v, F(_)) == CHOOSE r \in { F(x) : x \in {v} } : TRUE

(***************************************************************************)
(* Paths and the filesystem                                                *)
(***************************************************************************)
Root == << >>

Parent(p) == IF p = Root THEN Root ELSE SubSeq(p, 1, Len(p) - 1)

Join(dir, name) == Append(dir, name)

Dir == [kind |-> "dir"]

File(c) == [kind |-> "file", data |-> c]

Exists(f, p) == p \in DOMAIN f

IsDir(f, p) == Exists(f, p) /\ f[p].kind = "dir"

IsFile(f, p) == Exists(f, p) /\ f[p].kind = "file"

\* f with entry e at path p
Put(f, p, e) == [q \in (DOMAIN f) \cup {p} |-> IF q = p THEN e ELSE f[q]]

\* f without path p
Remove(f, p) == [q \in (DOMAIN f) \ {p} |-> f[q]]

\* Every filesystem operation yields [ok, fs]: ok = FALSE is an OSError raised
\* by the operation, and then fs is the filesystem it leaves behind.

\* Path.mkdir(parents=True, exist_ok=True)
RECURSIVE Mkdir(_, _)
Mkdir(f, p) ==
    IF Exists(f, p)
    THEN [ok |-> IsDir(f, p), fs |-> f]          \* FileExistsError on a file
    ELSE Eval(Mkdir(f, Parent(p)), LAMBDA up :   \* NotADirectoryError below a file
             IF up.ok THEN [ok |-> TRUE, fs |-> Put(up.fs, p, Dir)] ELSE up)

\* Path.unlink()
Unlink(f, p) ==
    IF IsFile(f, p)
    THEN [ok |-> TRUE, fs |-> Remove(f, p)]
    ELSE [ok |-> FALSE, fs |-> f]                \* FileNotFoundError, IsADirectoryError

\* Path.stat()
Stat(f, p) == [ok |-> Exists(f, p), fs |-> f]

\* shutil.copy2(src, dst): into dst/<name of src> when dst is a directory
Copy2(f, src, dst) ==
    Eval(IF IsDir(f, dst) /\ src # Root THEN Join(dst, src[Len(src)]) ELSE dst,
         LAMBDA target :
        IF /\ IsFile(f, src)                     \* else FileNotFoundError, IsADirectoryError
           /\ target # src                       \* else SameFileError
           /\ IsDir(f, Parent(target))           \* else FileNotFoundError, NotADirectoryError
           /\ ~IsDir(f, target)                  \* else IsADirectoryError
        THEN [ok |-> TRUE, fs |-> Put(f, target, File(f[src].data))]
        ELSE [ok |-> FALSE, fs |-> f])

(***************************************************************************)
(* The process's world: what a call reads and changes                      *)
(***************************************************************************)
World == [fs |-> fs, log |-> log, started |-> started, procs |-> procs]

Log(w, level, msg) == [w EXCEPT !.log = Append(@, <<level, msg>>)]

Start(w, strategy) == [w EXCEPT !.started = Append(@, strategy)]

SetFs(w, f) == [w EXCEPT !.fs = f]

\* A call yields [out, w]: out is "True" or "False" (the value returned) or
\* "Raise" (an exception left the call), w the world afterwards.
Outcome(out, w) == [out |-> out, w |-> w]

(***************************************************************************)
(* backup_with_cp                                                          *)
(***************************************************************************)
\* lines 84-94, once the parent directory is there
cp_overwrite_and_copy(w, source, dest) ==
    Eval(IF Exists(w.fs, dest)
         THEN Log(w, "WARNING", "Overwriting existing backup")
         ELSE w, LAMBDA w1 :
    Eval(IF Exists(w.fs, dest) THEN Unlink(w.fs, dest) ELSE [ok |-> TRUE, fs |-> w.fs],
         LAMBDA gone :
    IF ~gone.ok THEN Outcome("Raise", SetFs(w1, gone.fs)) ELSE
    Eval(Copy2(gone.fs, source, dest), LAMBDA copied :
    IF ~copied.ok THEN Outcome("Raise", SetFs(w1, copied.fs)) ELSE
    IF ~Stat(copied.fs, dest).ok THEN Outcome("Raise", SetFs(w1, copied.fs)) ELSE
    Outcome("True", Log(SetFs(w1, copied.fs), "INFO", "File-based backup completed")))))

\* a slip: the destination directory is made before the source is looked for
backup_with_cp_try_mkdir_first(w, db_path, backup_path) ==
    Eval(Mkdir(w.fs, Parent(backup_path)), LAMBDA made :
        IF ~made.ok
        THEN Outcome("Raise", SetFs(w, made.fs))
        ELSE Eval(SetFs(w, made.fs), LAMBDA w1 :
                 IF ~Exists(w1.fs, db_path)
                 THEN Outcome("False", Log(w1, "ERROR", "Source database not found"))
                 ELSE cp_overwrite_and_copy(w1, db_path, backup_path)))

\* the body of the try statement, lines 74-94
backup_with_cp_try(w, db_path, backup_path) ==
    IF ~Exists(w.fs, db_path)
    THEN Outcome("False", Log(w, "ERROR", "Source database not found"))
    ELSE Eval(Mkdir(w.fs, Parent(backup_path)), LAMBDA made :
             IF ~made.ok
             THEN Outcome("Raise", SetFs(w, made.fs))
             ELSE Eval(SetFs(w, made.fs), LAMBDA w1 :
                      cp_overwrite_and_copy(w1, db_path, backup_path)))

\* a slip: no except clause, the exception leaves the function
backup_with_cp_except_missing(body) == body

\* the except clause, lines 96-98
backup_with_cp_except(body) ==
    IF body.out = "Raise"
    THEN Outcome("False", Log(body.w, "ERROR", "File-based backup error"))
    ELSE body

backup_with_cp(w, db_path, backup_path) ==
    Eval(Log(Start(w, "cp"), "INFO", "Starting file-based backup"), LAMBDA w0 :
    Eval(backup_with_cp_try(w0, db_path, backup_path), LAMBDA body :
    backup_with_cp_except(body)))

(***************************************************************************)
(* backup_with_attach                                                      *)
(***************************************************************************)
Timeout == 3600

\* What the duckdb client does is outside the program.  A run of it is
\*   found      - FALSE when no duckdb executable can be started
\*   duration   - the seconds it runs when nobody stops it
\*   returncode - its exit status when it runs to its end
\*   writes     - whether it writes the database file it attaches as backup_db
\* (a client that is not found runs no time and writes nothing; the exit status
\* of one that is stopped at the timeout is never seen, and is given as 0).
Durations == {1, Timeout - 1, Timeout + 1}

ProcRuns ==
    { r \in [found : BOOLEAN, duration : Durations,
             returncode : 0..MaxReturnCode, writes : BOOLEAN] :
        /\ ~r.found => (r.duration = 1 /\ r.returncode = 0 /\ ~r.writes)
        /\ r.duration > Timeout => r.returncode = 0 }

\* The file the client leaves at abs_backup: a database holding what it
\* copied from source_db (0: nothing, the source could not be attached).
DuckdbEffect(f, run, abs_db, abs_backup) ==
    IF run.writes /\ IsDir(f, Parent(abs_backup)) /\ ~IsDir(f, abs_backup)
    THEN Put(f, abs_backup, File(IF IsFile(f, abs_db) THEN f[abs_db].data ELSE 0))
    ELSE f

\* a slip: subprocess.run is given no timeout, and waits for the client's end
subprocess_run_no_timeout(w, run, abs_db, abs_backup) ==
    IF ~run.found
    THEN [exc |-> "FileNotFoundError", returncode |-> -1, w |-> w]
    ELSE [exc |-> "none", returncode |-> run.returncode,
          w |-> [SetFs(w, DuckdbEffect(w.fs, run, abs_db, abs_backup))
                     EXCEPT !.procs = @ + 1]]

\* subprocess.run(['duckdb'], input=..., capture_output=True, timeout=3600):
\* yields [exc, returncode, w]; the client's output is captured, not passed on.
subprocess_run(w, run, abs_db, abs_backup) ==
    IF ~run.found
    THEN [exc |-> "FileNotFoundError", returncode |-> -1, w |-> w]
    ELSE Eval([SetFs(w, DuckdbEffect(w.fs, run, abs_db, abs_backup))
                   EXCEPT !.procs = @ + 1], LAMBDA w1 :
             IF run.duration > Timeout
             THEN [exc |-> "TimeoutExpired", returncode |-> -1, w |-> w1]
             ELSE [exc |-> "none", returncode |-> run.returncode, w |-> w1])

\* lines 53-59, once subprocess.run returned
attach_check_result(result, abs_backup) ==
    IF result.returncode # 0
    THEN Outcome("False", Log(result.w, "ERROR", "DuckDB backup failed"))
    ELSE IF ~Stat(result.w.fs, abs_backup).ok
         THEN Outcome("Raise", result.w)
         ELSE Outcome("True", Log(result.w, "INFO", "ATTACH+COPY backup completed"))

\* the body of the try statement, lines 31-59
backup_with_attach_try(w, db_path, backup_path, run) ==
    Eval(Mkdir(w.fs, Parent(backup_path)), LAMBDA made :
    IF ~made.ok THEN Outcome("Raise", SetFs(w, made.fs)) ELSE
    Eval(SetFs(w, made.fs), LAMBDA w1 :
    Eval(subprocess_run(w1, run, db_path, backup_path), LAMBDA result :
    IF result.exc # "none"
    THEN Outcome("Raise", result.w)
    ELSE attach_check_result(result, backup_path))))

\* the except clause, lines 61-63
backup_with_attach_except(body) ==
    IF body.out = "Raise"
    THEN Outcome("False", Log(body.w, "ERROR", "ATTACH+COPY backup error"))
    ELSE body

backup_with_attach(w, db_path, backup_path, run) ==
    Eval(Log(Start(w, "attach"), "INFO", "Starting ATTACH+COPY backup"), LAMBDA w0 :
    Eval(backup_with_attach_try(w0, db_path, backup_path, run), LAMBDA body :
    backup_with_attach_except(body)))

(***************************************************************************)
(* create_timestamped_backup                                               *)
(***************************************************************************)
Pad2(n) == IF n < 10 THEN "0" \o ToString(n) ELSE ToString(n)

Pad4(n) == IF n < 10 THEN "000" \o ToString(n)
           ELSE IF n < 100 THEN "00" \o ToString(n)
           ELSE IF n < 1000 THEN "0" \o ToString(n)
           ELSE ToString(n)

\* datetime.strftime("%Y%m%d-%H%M%S")
Strftime(t) ==
    Pad4(t.year) \o Pad2(t.month) \o Pad2(t.day) \o "-"
        \o Pad2(t.hour) \o Pad2(t.minute) \o Pad2(t.second)

BackupFilename(t) == "backup-" \o Strftime(t) \o ".duckdb"

\* The string "": a path string always has a component, the empty one none.
EmptyString == << >>

\* bool(s) of a string s
Truthy(s) == s # EmptyString

\* a slip: the path is returned whether or not the strategy succeeded
timestamped_result_always_path(success, backup_path) ==
    IF success.out = "Raise"
    THEN [out |-> "Raise", path |-> EmptyString, w |-> success.w]
    ELSE [out |-> "Return", path |-> backup_path, w |-> success.w]

\* line 117 (and an exception on its way out): yields [out, path, w], out =
\* "Return" with the string returned in path, or out = "Raise"
timestamped_result(success, backup_path) ==
    IF success.out = "Raise"
    THEN [out |-> "Raise", path |-> EmptyString, w |-> success.w]
    ELSE [out |-> "Return",
          path |-> IF success.out = "True" THEN backup_path ELSE EmptyString,
          w |-> success.w]

create_timestamped_backup(w, db_path, backup_dir, method, t, run) ==
    Eval(Join(backup_dir, BackupFilename(t)), LAMBDA backup_path :
    Eval(Log(w, "INFO", "Creating timestamped backup"), LAMBDA w0 :
    IF method = "cp"
    THEN Eval(backup_with_cp(w0, db_path, backup_path), LAMBDA success :
             timestamped_result(success, backup_path))
    ELSE IF method = "attach"
    THEN Eval(backup_with_attach(w0, db_path, backup_path, run), LAMBDA success :
             timestamped_result(success, backup_path))
    ELSE [out |-> "Return", path |-> EmptyString,
          w |-> Log(w0, "ERROR", "Unknown backup method")]))

(***************************************************************************)
(* main                                                                    *)
(***************************************************************************)
\* A command line: for each option the values given for it (none or one),
\* whether --timestamp is given, and whether -h/--help is given, before or
\* after the --method option ("absent", "first", "last").
DbPaths == { <<"a.db">>, <<"bk", "o.db">> }

BackupPaths == { <<"a.db">>, <<"bk">>, <<"bk", "o.db">>, <<"bk", "s", "o.db">> }

Methods == {"cp", "attach", "zip"}

Optional(S) == { << >> } \cup { <<x>> : x \in S }

Argvs == [help : {"absent", "first", "last"},
          db : Optional(DbPaths),
          backup : Optional(BackupPaths),
          method : Optional(Methods),
          timestamp : BOOLEAN]

NoArgs == [db |-> Root, backup |-> Root, method |-> "cp", timestamp |-> FALSE]

HelpText == [kind |-> "help"]

Line(text) == [kind |-> "line", text |-> text]

\* a slip: --method is declared without choices, any value is accepted
parse_args_no_choices(argv) ==
    IF argv.help # "absent"
    THEN [exit |-> TRUE, status |-> 0, out |-> <<HelpText>>, args |-> NoArgs]
    ELSE IF argv.db = << >> \/ argv.backup = << >>
    THEN [exit |-> TRUE, status |-> 2, out |-> << >>, args |-> NoArgs]
    ELSE [exit |-> FALSE, status |-> -1, out |-> << >>,
          args |-> [db |-> argv.db[1], backup |-> argv.backup[1],
                    method |-> IF argv.method = << >> THEN "cp" ELSE argv.method[1],
                    timestamp |-> argv.timestamp]]

\* parser.parse_args(): yields [exit, status, out, args].  argparse handles the
\* options in the order given and checks the required ones last; -h prints the
\* help to standard output and exits 0, an error prints to standard error and
\* exits 2.
parse_args(argv) ==
    IF argv.help = "first"
    THEN [exit |-> TRUE, status |-> 0, out |-> <<HelpText>>, args |-> NoArgs]
    ELSE IF argv.method # << >> /\ argv.method[1] \notin {"cp", "attach"}
    THEN [exit |-> TRUE, status |-> 2, out |-> << >>, args |-> NoArgs]
    ELSE IF argv.help = "last"
    THEN [exit |-> TRUE, status |-> 0, out |-> <<HelpText>>, args |-> NoArgs]
    ELSE IF argv.db = << >> \/ argv.backup = << >>
    THEN [exit |-> TRUE, status |-> 2, out |-> << >>, args |-> NoArgs]
    ELSE [exit |-> FALSE, status |-> -1, out |-> << >>,
          args |-> [db |-> argv.db[1], backup |-> argv.backup[1],
                    method |-> IF argv.method = << >> THEN "cp" ELSE argv.method[1],
                    timestamp |-> argv.timestamp]]

\* a slip: the path is printed before it is tested
main_timestamp_prints_first(w, args, t, run) ==
    Eval(create_timestamped_backup(w, args.db, args.backup, args.method, t, run),
         LAMBDA made :
        IF made.out = "Raise"
        THEN [out |-> "Raise", rc |-> -1, printed |-> << >>, w |-> made.w]
        ELSE [out |-> "Return", rc |-> IF Truthy(made.path) THEN 0 ELSE 1,
              printed |-> <<Line(made.path)>>, w |-> made.w])

\* main, lines 140-146: yields [out, rc, printed, w]
main_timestamp(w, args, t, run) ==
    Eval(create_timestamped_backup(w, args.db, args.backup, args.method, t, run),
         LAMBDA made :
        IF made.out = "Raise"
        THEN [out |-> "Raise", rc |-> -1, printed |-> << >>, w |-> made.w]
        ELSE IF Truthy(made.path)
        THEN [out |-> "Return", rc |-> 0, printed |-> <<Line(made.path)>>, w |-> made.w]
        ELSE [out |-> "Return", rc |-> 1, printed |-> << >>, w |-> made.w])

\* a slip: when the file copy fails the native export is tried as well
main_plain_fallback(w, args, run) ==
    Eval(IF args.method = "cp"
         THEN backup_with_cp(w, args.db, args.backup)
         ELSE backup_with_attach(w, args.db, args.backup, run),
         LAMBDA first :
    Eval(IF args.method = "cp" /\ first.out = "False"
         THEN backup_with_attach(first.w, args.db, args.backup, run)
         ELSE first,
         LAMBDA success :
        IF success.out = "Raise"
        THEN [out |-> "Raise", rc |-> -1, printed |-> << >>, w |-> success.w]
        ELSE [out |-> "Return", rc |-> IF success.out = "True" THEN 0 ELSE 1,
              printed |-> << >>, w |-> success.w]))

\* main, lines 147-153: yields [out, rc, printed, w]
main_plain(w, args, run) ==
    Eval(IF args.method = "cp"
         THEN backup_with_cp(w, args.db, args.backup)
         ELSE backup_with_attach(w, args.db, args.backup, run),
         LAMBDA success :
        IF success.out = "Raise"
        THEN [out |-> "Raise", rc |-> -1, printed |-> << >>, w |-> success.w]
        ELSE [out |-> "Return", rc |-> IF success.out = "True" THEN 0 ELSE 1,
              printed |-> << >>, w |-> success.w])

(***************************************************************************)
(* The state machine: one invocation per behaviour, of main from the       *)
(* command line (Spec) or of one of the module's functions by an importing *)
(* caller (SpecCp, SpecAttach, SpecTimestamped)                            *)
(***************************************************************************)
Times == { [year |-> 2025, month |-> 12, day |-> 23, hour |-> 15, minute |-> 30, second |-> 45],
           [year |-> 2026, month |-> 1, day |-> 5, hour |-> 9, minute |-> 5, second |-> 7] }

\* the timestamped backup a run at time t names when --backup is bk
StampedPath(t) == Join(<<"bk">>, BackupFilename(t))

Absent == [kind |-> "absent"]

Files == { File(c) : c \in Contents }

\* the filesystem with entry e[i] at path p[i], for the entries that are not Absent
Tree(p, e) ==
    [q \in {Root} \cup { p[i] : i \in { j \in DOMAIN p : e[j] # Absent } } |->
        IF q = Root THEN Dir ELSE e[CHOOSE i \in DOMAIN p : p[i] = q]]

\* The filesystems a run at time t can start from: what may be at a.db, bk,
\* bk/o.db, bk/s, bk/s/o.db and bk/backup-<t>.duckdb, where whatever exists
\* lies in a directory.
InitFs(t) ==
    { Tree(<< <<"a.db">>, <<"bk">>, <<"bk", "o.db">>, <<"bk", "s">>,
              <<"bk", "s", "o.db">>, StampedPath(t) >>, e) :
      e \in { x \in ({Absent} \cup Files) \X {Absent, File(1), Dir}
                    \X ({Absent, Dir} \cup Files) \X {Absent, File(1), Dir}
                    \X {Absent, File(1)} \X {Absent, File(1)} :
                /\ x[2] # Dir => (x[3] = Absent /\ x[4] = Absent /\ x[6] = Absent)
                /\ x[4] # Dir => x[5] = Absent } }

Init ==
    /\ now \in Times
    /\ fs \in InitFs(now)
    /\ fs0 = fs
    /\ pc = "start"
    /\ call = [fn |-> "none"]
    /\ ret = "None"
    /\ path = EmptyString
    /\ rc = -1
    /\ raised = FALSE
    /\ status = -1
    /\ stdout = << >>
    /\ log = << >>
    /\ started = << >>
    /\ procs = 0

SetWorld(w) ==
    /\ fs' = w.fs
    /\ log' = w.log
    /\ started' = w.started
    /\ procs' = w.procs

\* an importing caller calls backup_with_cp(db, backup)
CallBackupWithCp ==
    /\ pc = "start"
    /\ \E db \in DbPaths, backup \in BackupPaths, w \in {World} :
          \E r \in {backup_with_cp(w, db, backup)} :
              /\ call' = [fn |-> "backup_with_cp", db |-> db, backup |-> backup]
              /\ ret' = IF r.out = "Raise" THEN "None" ELSE r.out
              /\ raised' = (r.out = "Raise")
              /\ SetWorld(r.w)
    /\ pc' = "returned"
    /\ UNCHANGED <<fs0, now, path, rc, status, stdout>>

\* an importing caller calls backup_with_attach(db, backup)
CallBackupWithAttach ==
    /\ pc = "start"
    /\ \E db \in DbPaths, backup \in BackupPaths, run \in ProcRuns, w \in {World} :
          \E r \in {backup_with_attach(w, db, backup, run)} :
              /\ call' = [fn |-> "backup_with_attach", db |-> db, backup |-> backup,
                          run |-> run]
              /\ ret' = IF r.out = "Raise" THEN "None" ELSE r.out
              /\ raised' = (r.out = "Raise")
              /\ SetWorld(r.w)
    /\ pc' = "returned"
    /\ UNCHANGED <<fs0, now, path, rc, status, stdout>>

\* an importing caller calls create_timestamped_backup(db, dir, method)
CallCreateTimestampedBackup ==
    /\ pc = "start"
    /\ \E db \in DbPaths, dir \in BackupPaths, method \in Methods,
          run \in ProcRuns, w \in {World} :
          \E r \in {create_timestamped_backup(w, db, dir, method, now, run)} :
              /\ call' = [fn |-> "create_timestamped_backup", db |-> db, dir |-> dir,
                          method |-> method]
              /\ path' = r.path
              /\ raised' = (r.out = "Raise")
              /\ SetWorld(r.w)
    /\ pc' = "returned"
    /\ UNCHANGED <<fs0, now, ret, rc, status, stdout>>

\* main, lines 121-138: the command line is parsed (or argparse ends the process)
MainParse ==
    /\ pc = "start"
    /\ \E argv \in Argvs :
          \E parsed \in {parse_args(argv)} :
              /\ call' = [fn |-> "main", argv |-> argv, args |-> parsed.args]
              /\ pc' = IF parsed.exit THEN "exited" ELSE "parsed"
              /\ status' = parsed.status
              /\ stdout' = stdout \o parsed.out
    /\ UNCHANGED <<fs, fs0, now, ret, path, rc, raised, log, started, procs>>

MainBody(r) ==
    /\ rc' = r.rc
    /\ raised' = (r.out = "Raise")
    /\ stdout' = stdout \o r.printed
    /\ SetWorld(r.w)
    /\ pc' = "returned"
    /\ UNCHANGED <<fs0, now, call, ret, path, status>>

\* main, lines 140-146
MainTimestamp ==
    /\ pc = "parsed"
    /\ call.args.timestamp
    /\ \E run \in ProcRuns, w \in {World} :
          \E r \in {main_timestamp(w, call.args, now, run)} : MainBody(r)

\* main, lines 147-153
MainPlain ==
    /\ pc = "parsed"
    /\ ~call.args.timestamp
    /\ \E run \in ProcRuns, w \in {World} :
          \E r \in {main_plain(w, call.args, run)} : MainBody(r)

\* line 157, sys.exit(main()); an exception that leaves main ends the process
\* with a traceback and status 1
SysExit ==
    /\ pc = "returned"
    /\ call.fn = "main"
    /\ status' = IF raised THEN 1 ELSE rc
    /\ pc' = "exited"
    /\ UNCHANGED <<fs, fs0, now, call, ret, path, rc, raised, stdout, log, started, procs>>

Next ==
    \/ MainParse
    \/ MainTimestamp
    \/ MainPlain
    \/ SysExit

Spec == Init /\ [][Next]_vars

SpecCp == Init /\ [][CallBackupWithCp]_vars

SpecAttach == Init /\ [][CallBackupWithAttach]_vars

SpecTimestamped == Init /\ [][CallCreateTimestampedBackup]_vars

(***************************************************************************)
(* What the claims speak of                                                *)
(***************************************************************************)
\* the logger recorded that a strategy completed its backup
Succeeded ==
    \E i \in DOMAIN log :
        log[i][2] \in {"File-based backup completed", "ATTACH+COPY backup completed"}

Warned == \E i \in DOMAIN log : log[i] = <<"WARNING", "Overwriting existing backup">>

\* no directory on the way to p is missing below a file: the parent of p
\* exists or can be created
ParentCreatable(f, p) == \A k \in 0..(Len(p) - 1) : ~IsFile(f, SubSeq(p, 1, k))

\* the file name the two times of the model give
ExpectedFilename ==
    IF now.year = 2025 THEN "backup-20251223-153045.duckdb"
    ELSE "backup-20260105-090507.duckdb"

CpReturned == pc = "returned" /\ call.fn = "backup_with_cp"

AttachReturned == pc = "returned" /\ call.fn = "backup_with_attach"

TimestampedReturned == pc = "returned" /\ call.fn = "create_timestamped_backup"

MainExited == pc = "exited" /\ call.fn = "main"

UnknownMethod(argv) == argv.method # << >> /\ argv.method[1] \notin {"cp", "attach"}

MissingRequired(argv) == argv.db = << >> \/ argv.backup = << >>

\* argparse ends the process: the help is asked for or the command line is wrong
ArgparseEnds(argv) == argv.help # "absent" \/ UnknownMethod(argv) \/ MissingRequired(argv)

(***************************************************************************)
(* C1: for any existing source file and any destination path whose parent  *)
(* directory exists or can be created, backup_with_cp returns True and the *)
(* destination is then a file with the source's content (and main with     *)
(* --method cp and no --timestamp exits 0).                                *)
(* Fails: see C10 (destination = source), and a destination that is a      *)
(* directory.                                                              *)
(***************************************************************************)
C1_CopyIdentical ==
    /\ (CpReturned /\ IsFile(fs0, call.db) /\ ParentCreatable(fs0, call.backup))
          => /\ ret = "True"
             /\ IsFile(fs, call.backup)
             /\ fs[call.backup].data = fs0[call.db].data
    /\ (MainExited /\ ~ArgparseEnds(call.argv) /\ call.args.method = "cp"
            /\ ~call.args.timestamp /\ IsFile(fs0, call.args.db)
            /\ ParentCreatable(fs0, call.args.backup))
          => /\ status = 0
             /\ IsFile(fs, call.args.backup)
             /\ fs[call.args.backup].data = fs0[call.args.db].data

(***************************************************************************)
(* C2: if something occupies the destination path before backup_with_cp    *)
(* runs, with an existing source, the run logs a warning, returns True and *)
(* leaves at the destination exactly the source's content.                 *)
(* Fails: see C10 (destination = source), and a destination that is a      *)
(* directory.                                                              *)
(***************************************************************************)
C2_OverwriteSucceeds ==
    (CpReturned /\ IsFile(fs0, call.db) /\ Exists(fs0, call.backup))
        => /\ Warned
           /\ ret = "True"
           /\ IsFile(fs, call.backup)
           /\ fs[call.backup].data = fs0[call.db].data

(***************************************************************************)
(* C3: if the source does not exist, backup_with_cp returns False and      *)
(* leaves the filesystem as it was: no destination and no directory is     *)
(* created, an existing destination is not removed.                        *)
(***************************************************************************)
C3_MissingSourceNoMutation ==
    (CpReturned /\ ~Exists(fs0, call.db))
        => /\ ret = "False"
           /\ ~raised
           /\ fs = fs0

\* the source bk/o.db is missing (there is no bk), the destination a.db exists and stays
C3_Witness ==
    /\ CpReturned
    /\ ~Exists(fs0, call.db)
    /\ ret = "False"
    /\ IsFile(fs0, <<"a.db">>)
    /\ call.backup = <<"a.db">>
    /\ ~Exists(fs0, <<"bk">>)

C6_StdoutOnlyPath ==
    call.fn = "main"
        => /\ stdout # << >> => (call.argv.timestamp /\ Succeeded)
           /\ (pc \in {"returned", "exited"} /\ call.argv.timestamp /\ Succeeded)
                 => stdout = <<Line(Join(call.args.backup, ExpectedFilename))>>

(***************************************************************************)
(* C6, amended: in every run of main that argparse does not end (no help,  *)
(* no usage error), something is written to standard output only when      *)
(* --timestamp is set and the backup succeeded, and then it is exactly the *)
(* backup path, on one line; a run that argparse ends writes nothing to    *)
(* standard output but the help text that -h/--help asks for.              *)
(***************************************************************************)
C6_StdoutContract ==
    call.fn = "main"
        => IF ArgparseEnds(call.argv)
           THEN stdout \in { << >>, <<HelpText>> }
           ELSE /\ stdout # << >> => (call.argv.timestamp /\ Succeeded)
                /\ (pc \in {"returned", "exited"} /\ call.argv.timestamp /\ Succeeded)
                      => stdout = <<Line(Join(call.args.backup, ExpectedFilename))>>

\* a timestamped native export into a directory that had to be created
C6_Witness ==
    /\ MainExited
    /\ call.args.timestamp
    /\ call.args.method = "attach"
    /\ call.args.backup = <<"bk", "s", "o.db">>
    /\ status = 0
    /\ stdout = <<Line(<<"bk", "s", "o.db", "backup-20260105-090507.duckdb">>)>>

(***************************************************************************)
(* C7: create_timestamped_backup(db, dir, method) returns the path         *)
(* dir/backup-<YYYYMMDD-HHMMSS>.duckdb of the local time exactly when the  *)
(* delegated strategy returned success, and the empty string in every      *)
(* failure case (the strategy failed, or the method is unknown); it never  *)
(* raises, and a non-empty return value implies that a file exists at the  *)
(* returned path (Path.stat() succeeds there).                             *)
(***************************************************************************)
C7_TimestampedReturn ==
    TimestampedReturned
        => /\ ~raised
           /\ path \in {EmptyString, Join(call.dir, ExpectedFilename)}
           /\ Truthy(path) <=> Succeeded
           /\ call.method \notin {"cp", "attach"} => (path = EmptyString /\ started = << >>)
           /\ Truthy(path) => (Exists(fs, path) /\ started = <<call.method>>)

C7_Witness ==
    /\ TimestampedReturned
    /\ call.method = "cp"
    /\ call.dir = <<"bk", "s", "o.db">>
    /\ path = <<"bk", "s", "o.db", "backup-20251223-153045.duckdb">>
    /\ ~Exists(fs0, <<"bk">>)
    /\ IsFile(fs, path)

(***************************************************************************)
(* C8: in backup_with_attach a subprocess that exceeds the 3600 second     *)
(* timeout, one that exits with a non-zero status and one that exits 0     *)
(* without leaving a destination file each make the function return False  *)
(* (never True, never an exception); it returns True only when the         *)
(* subprocess exited with status 0 within the timeout and the destination  *)
(* exists.                                                                 *)
(***************************************************************************)
C8_AttachFailures ==
    AttachReturned
        => /\ ~raised
           /\ ret \in {"True", "False"}
           /\ (call.run.found /\ call.run.duration > 3600) => ret = "False"
           /\ (call.run.found /\ call.run.returncode # 0) => ret = "False"
           /\ (call.run.found /\ call.run.returncode = 0 /\ ~Exists(fs, call.backup))
                 => ret = "False"
           /\ ret = "True" => /\ call.run.found
                              /\ call.run.duration <= 3600
                              /\ call.run.returncode = 0
                              /\ Exists(fs, call.backup)
                              /\ procs = 1

\* the client ran past the timeout, having written the destination already
C8_Witness ==
    /\ AttachReturned
    /\ call.run.found
    /\ call.run.duration > 3600
    /\ call.run.writes
    /\ IsFile(fs, call.backup)
    /\ ~Exists(fs0, call.backup)
    /\ ret = "False"

(***************************************************************************)
(* C9, as claimed: within one invocation of main exactly one strategy, the *)
(* one --method selects, is started, at most once, and after its failure   *)
(* the run goes to exit status 1 with no retry or fallback.                *)
(* Fails: a run that argparse ends (help, usage error) starts no strategy. *)
(***************************************************************************)
C9_ExactlyOneStrategy ==
    MainExited
        => /\ Len(started) = 1
           /\ started[1] = call.args.method
           /\ ~Succeeded => status = 1

(***************************************************************************)
(* C9, amended: within one invocation of main at most one strategy is      *)
(* started: none when argparse ends the run (help, usage error), otherwise *)
(* exactly one, the one --method selects, once; after its failure nothing  *)
(* more is started, spawned or written, and the run goes directly to exit  *)
(* status 1.                                                               *)
(***************************************************************************)
C9_Started ==
    call.fn = "main"
        => /\ Len(started) <= 1
           /\ procs <= 1
           /\ ArgparseEnds(call.argv) => started = << >>
           /\ (pc \in {"returned", "exited"} /\ ~ArgparseEnds(call.argv))
                 => started = <<call.args.method>>
           /\ started # << >> => started[1] = call.args.method

C9_FailureStep ==
    (pc = "returned" /\ call.fn = "main" /\ ~Succeeded)
        => /\ pc' = "exited"
           /\ status' = 1
           /\ started' = started
           /\ procs' = procs
           /\ fs' = fs

\* C9, amended: at most one strategy is started, and a failed strategy is
\* followed by nothing but the exit with status 1
C9_NoRetry == []C9_Started /\ [][C9_FailureStep]_vars

\* the native export failed after its subprocess ran, and the process exited
C9_Witness ==
    /\ MainExited
    /\ started = <<"attach">>
    /\ procs = 1
    /\ ~Succeeded
    /\ status = 1

(***************************************************************************)
(* C10: backup_with_cp never deletes or modifies the source file, also     *)
(* when the destination path names the source itself.                      *)
(* Fails: with destination = source the source is unlinked as the "old     *)
(* backup", and the copy then finds no source.                             *)
(***************************************************************************)
C10_SourceUntouched ==
    (CpReturned /\ Exists(fs0, call.db))
        => /\ Exists(fs, call.db)
           /\ fs[call.db] = fs0[call.db]

====
